---------------------------- MODULE Spec2Model ----------------------------
(***************************************************************************)
(* Model of rust/src/paths.rs: the ArbPath queries (has_pool,              *)
(* should_blacklist), the path simulation (simulate_v2_path) and the       *)
(* triangular path generator (generate_triangular_paths).                  *)
(*                                                                         *)
(* Three specifications share the variables:                               *)
(*   SpecGen    a pool list and a base token, then one Generate call;      *)
(*   SpecSim    an ArbPath, an amount and a reserve snapshot, then one     *)
(*              Simulate call;                                             *)
(*   SpecQuery  an ArbPath, then one HasPool or ShouldBlacklist call.      *)
(* H160 values are abstract identifiers; U256 is an unsigned integer of    *)
(* U256_BITS bits whose +, * and pow panic on overflow (the uint crate's   *)
(* operators), which is what lines 54-55 of paths.rs use.                  *)
(***************************************************************************)
EXTENDS Integers, Sequences, FiniteSets

VARIABLES
    pools,      \* generate_triangular_paths: the pool list argument
    token_in,   \* generate_triangular_paths: the base token argument
    paths,      \* generate_triangular_paths: the returned Vec<ArbPath>
    path,       \* the ArbPath (self) of a query or a simulation
    amount_in,  \* simulate_v2_path: the amount argument
    reserves,   \* simulate_v2_path: the HashMap<H160, Reserve> argument
    ret,        \* the value the last call returned
    pc          \* "ready" before the call, then the name of the call made

vars == <<pools, token_in, paths, path, amount_in, reserves, ret, pc>>

-----------------------------------------------------------------------------
(* Bounds and input domains *)

MaxPools == 3

Tokens == {"A", "B", "C"}

Addrs == {"x1", "x2", "x3"}

\* width of the model's U256
U256_BITS == 30

U256_MAX == 2^U256_BITS - 1

\* marker for an arithmetic result that does not fit the U256
Overflow == 0 - 1

\* fee denominator of the AMM output function (parts per thousand)
FEE_DENOM == 1000

\* decimals and fee given to the pools of a generator run (the generator
\* copies them and never reads them)
GenDecimals == 3

GenFee == 3

Decimals == {0, 3, 10}

Fees == {3, 30}

Amounts == {0, 1, 2000000}

ReserveValues ==
    { [reserve0 |-> 1000, reserve1 |-> 1000],
      [reserve0 |-> 1000, reserve1 |-> 2000],
      [reserve0 |-> 0, reserve1 |-> 1000],
      [reserve0 |-> 2000000, reserve1 |-> 1000] }

-----------------------------------------------------------------------------
(* Data *)

Pool(a, t0, t1, d0, d1, f) ==
    [address |-> a, token0 |-> t0, token1 |-> t1,
     decimals0 |-> d0, decimals1 |-> d1, fee |-> f]

ArbPath(n, p1, p2, p3, z1, z2, z3) ==
    [nhop |-> n, pool_1 |-> p1, pool_2 |-> p2, pool_3 |-> p3,
     zero_for_one_1 |-> z1, zero_for_one_2 |-> z2, zero_for_one_3 |-> z3]

Some(v) == [tag |-> "Some", val |-> v]

None == [tag |-> "None", val |-> 0]

\* the call did not return: an overflow panic or an unwrap on None
Panic == [tag |-> "Panic", val |-> 0]

NoPath == [nhop |-> 0]

NoRet == [op |-> "none"]

\* match i { 0 => pool_1, 1 => pool_2, 2 => pool_3 }
HopPool(self, i) ==
    IF i = 0 THEN self.pool_1 ELSE IF i = 1 THEN self.pool_2 ELSE self.pool_3

\* match i { 0 => zero_for_one_1, 1 => zero_for_one_2, 2 => zero_for_one_3 }
HopFlag(self, i) ==
    IF i = 0 THEN self.zero_for_one_1
    ELSE IF i = 1 THEN self.zero_for_one_2 ELSE self.zero_for_one_3

-----------------------------------------------------------------------------
(* ArbPath::has_pool *)

has_pool(self, pool) ==
    LET is_pool_1 == self.pool_1.address = pool
        is_pool_2 == self.pool_2.address = pool
        is_pool_3 == self.pool_3.address = pool
    IN  is_pool_1 \/ is_pool_2 \/ is_pool_3

(* ArbPath::should_blacklist: the body of the for loop returns in its first
   iteration, so only i = 0 is ever examined; with nhop = 0 the loop body is
   never entered and the result is false. *)
should_blacklist(self, blacklist_tokens) ==
    IF 0 < self.nhop
    THEN LET pool == HopPool(self, 0)
         IN  pool.token0 \in blacklist_tokens \/ pool.token1 \in blacklist_tokens
    ELSE FALSE

-----------------------------------------------------------------------------
(* U256 arithmetic *)

\* a * b when it fits the U256, Overflow otherwise
MulU256(a, b) ==
    IF a = 0 \/ b <= U256_MAX \div a THEN a * b ELSE Overflow

\* a + b when it fits the U256, Overflow otherwise
AddU256(a, b) ==
    IF b <= U256_MAX - a THEN a + b ELSE Overflow

\* U256::from(10).pow(e): Overflow stands for the panic of pow
RECURSIVE PowTen(_)
PowTen(e) ==
    IF e = 0 THEN 1
    ELSE LET r == PowTen(e - 1)
         IN  IF r = Overflow THEN Overflow ELSE MulU256(r, 10)

(* UniswapV2Simulator::get_amount_out (crate::simulator): amount_in_with_fee
   = amount_in * (FEE_DENOM - fee); numerator = amount_in_with_fee *
   reserve_out; denominator = reserve_in * FEE_DENOM + amount_in_with_fee;
   numerator / denominator, with no value on a zero denominator or on an
   overflow of any step. *)
get_amount_out(amt, reserve_in, reserve_out, fee) ==
    IF fee > FEE_DENOM THEN None
    ELSE
    LET amount_in_with_fee == MulU256(amt, FEE_DENOM - fee)
        numerator == IF amount_in_with_fee = Overflow THEN Overflow
                     ELSE MulU256(amount_in_with_fee, reserve_out)
        scaled_in == MulU256(reserve_in, FEE_DENOM)
        denominator == IF scaled_in = Overflow \/ amount_in_with_fee = Overflow
                       THEN Overflow
                       ELSE AddU256(scaled_in, amount_in_with_fee)
    IN  IF numerator = Overflow \/ denominator = Overflow \/ denominator = 0
        THEN None
        ELSE Some(numerator \div denominator)

-----------------------------------------------------------------------------
(* ArbPath::simulate_v2_path *)

\* lines 49-53
token_in_decimals(self) ==
    IF self.zero_for_one_1 THEN self.pool_1.decimals0 ELSE self.pool_1.decimals1

\* the scaling written as a sum instead of a product
ScaleAmountAdded(amt, unit) == AddU256(amt, unit)

\* line 55: amount_in * unit, the panicking Mul of U256
ScaleAmount(amt, unit) == MulU256(amt, unit)

\* the input-side reserve chosen against the direction flag
reserve_in_swapped(zero_for_one, reserve) ==
    IF zero_for_one THEN reserve.reserve1 ELSE reserve.reserve0

\* lines 78-86
reserve_in(zero_for_one, reserve) ==
    IF zero_for_one THEN reserve.reserve0 ELSE reserve.reserve1

reserve_out(zero_for_one, reserve) ==
    IF zero_for_one THEN reserve.reserve1 ELSE reserve.reserve0

\* lines 57-92: the for loop from iteration i on, amount_out being the
\* running amount; then Some(amount_out)
RECURSIVE SimLoop(_, _, _, _)
SimLoop(self, i, amount_out, rsv) ==
    IF i >= self.nhop THEN Some(amount_out)
    ELSE IF i > 2 THEN Panic
    ELSE
    LET pool == HopPool(self, i)
        zero_for_one == HopFlag(self, i)
    IN  IF pool.address \notin DOMAIN rsv THEN None
        ELSE
        LET reserve == rsv[pool.address]
            out == get_amount_out(amount_out,
                                  reserve_in(zero_for_one, reserve),
                                  reserve_out(zero_for_one, reserve),
                                  pool.fee)
        IN  IF out.tag = "None" THEN None
            ELSE SimLoop(self, i + 1, out.val, rsv)

simulate_v2_path(self, amt, rsv) ==
    LET unit == PowTen(token_in_decimals(self))
    IN  IF unit = Overflow THEN Panic
        ELSE LET scaled == ScaleAmount(amt, unit)
             IN  IF scaled = Overflow THEN Panic
                 ELSE SimLoop(self, 0, scaled, rsv)

-----------------------------------------------------------------------------
(* generate_triangular_paths *)

\* can_trade_1, can_trade_2, can_trade_3 (lines 113, 125, 137-138)
can_trade(pool, token) == pool.token0 = token \/ pool.token1 = token

\* zero_for_one_1, zero_for_one_2 (lines 116, 128)
zero_for_one_12(pool, token) == pool.token0 = token

\* zero_for_one_3 (lines 141-142): the same expression as can_trade_3
zero_for_one_3(pool, token) == pool.token0 = token \/ pool.token1 = token

\* token_out_1, token_out_2, token_out_3 (lines 117-121, 129-133, 143-147)
token_out_of(pool, zero_for_one) ==
    IF zero_for_one THEN pool.token1 ELSE pool.token0

\* the count taken over the first two addresses only, the third assumed new
unique_pool_cnt_first_two(a1, a2, a3) == Cardinality({a1, a2}) + 1

\* lines 150-155: the number of distinct addresses among the three
unique_pool_cnt(a1, a2, a3) == Cardinality({a1, a2, a3})

\* lines 157-159: the triple is skipped
too_few_unique(cnt) == cnt < 3

\* lines 136-174: the body of the innermost loop for one (i, j, k); the
\* paths it pushes (none or one)
InnerBody(ps, tin, pool_1, z1, pool_2, z2, token_out_2, k) ==
    LET pool_3 == ps[k]
    IN  IF ~can_trade(pool_3, token_out_2) THEN <<>>
        ELSE
        LET z3 == zero_for_one_3(pool_3, token_out_2)
            token_out_3 == token_out_of(pool_3, z3)
        IN  IF token_out_3 # tin THEN <<>>
            ELSE IF too_few_unique(unique_pool_cnt(pool_1.address,
                                                   pool_2.address,
                                                   pool_3.address))
            THEN <<>>
            ELSE << ArbPath(3, pool_1, pool_2, pool_3, z1, z2, z3) >>

\* lines 135-175: for k in 0..pools.len(), from k on (1-based here)
RECURSIVE LoopK(_, _, _, _, _, _, _, _)
LoopK(ps, tin, pool_1, z1, pool_2, z2, token_out_2, k) ==
    IF k > Len(ps) THEN <<>>
    ELSE InnerBody(ps, tin, pool_1, z1, pool_2, z2, token_out_2, k)
         \o LoopK(ps, tin, pool_1, z1, pool_2, z2, token_out_2, k + 1)

\* lines 123-177: for j in 0..pools.len(), from j on
RECURSIVE LoopJ(_, _, _, _, _, _)
LoopJ(ps, tin, pool_1, z1, token_out_1, j) ==
    IF j > Len(ps) THEN <<>>
    ELSE
    LET pool_2 == ps[j]
        here == IF can_trade(pool_2, token_out_1)
                THEN LET z2 == zero_for_one_12(pool_2, token_out_1)
                     IN  LoopK(ps, tin, pool_1, z1, pool_2, z2,
                               token_out_of(pool_2, z2), 1)
                ELSE <<>>
    IN  here \o LoopJ(ps, tin, pool_1, z1, token_out_1, j + 1)

\* lines 111-179: for i in 0..pools.len(), from i on
RECURSIVE LoopI(_, _, _)
LoopI(ps, tin, i) ==
    IF i > Len(ps) THEN <<>>
    ELSE
    LET pool_1 == ps[i]
        here == IF can_trade(pool_1, tin)
                THEN LET z1 == zero_for_one_12(pool_1, tin)
                     IN  LoopJ(ps, tin, pool_1, z1, token_out_of(pool_1, z1), 1)
                ELSE <<>>
    IN  here \o LoopI(ps, tin, i + 1)

generate_triangular_paths(ps, tin) == LoopI(ps, tin, 1)

-----------------------------------------------------------------------------
(* Specification of the generator *)

\* the pool records a generator run may be given: token0 # token1
GenPools ==
    { Pool(a, t0, t1, GenDecimals, GenDecimals, GenFee) :
        a \in Addrs, t0 \in Tokens, t1 \in Tokens } \ 
    { Pool(a, t, t, GenDecimals, GenDecimals, GenFee) :
        a \in Addrs, t \in Tokens }

PoolLists == UNION { [1..n -> GenPools] : n \in 0..MaxPools }

InitGen ==
    /\ pools \in PoolLists
    /\ token_in \in Tokens
    /\ paths = <<>>
    /\ path = NoPath
    /\ amount_in = 0
    /\ reserves = <<>>
    /\ ret = NoRet
    /\ pc = "ready"

Generate ==
    /\ pc = "ready"
    /\ paths' = generate_triangular_paths(pools, token_in)
    /\ pc' = "generated"
    /\ UNCHANGED <<pools, token_in, path, amount_in, reserves, ret>>

NextGen == Generate

SpecGen == InitGen /\ [][NextGen]_vars

-----------------------------------------------------------------------------
(* Specification of the simulation *)

\* The pools of a simulated path: simulate_v2_path reads the address, the
\* fee and, of pool_1 only, the decimals; hop i sits at its own address.
SimPool1 ==
    { Pool("x1", "A", "B", d0, d1, f) :
        d0 \in Decimals, d1 \in Decimals, f \in Fees }

SimPool2 == { Pool("x2", "B", "C", GenDecimals, GenDecimals, f) : f \in Fees }

SimPool3 == { Pool("x3", "C", "A", GenDecimals, GenDecimals, f) : f \in Fees }

SimPaths ==
    { ArbPath(n, p1, p2, p3, z1, z2, z3) :
        n \in {2, 3}, p1 \in SimPool1, p2 \in SimPool2, p3 \in SimPool3,
        z1 \in BOOLEAN, z2 \in BOOLEAN, z3 \in BOOLEAN }

Snapshots == UNION { [S -> ReserveValues] : S \in SUBSET Addrs }

InitSim ==
    /\ pools = <<>>
    /\ token_in = "A"
    /\ paths = <<>>
    /\ path \in SimPaths
    /\ amount_in \in Amounts
    /\ reserves \in Snapshots
    /\ ret = NoRet
    /\ pc = "ready"

Simulate ==
    /\ pc = "ready"
    /\ ret' = simulate_v2_path(path, amount_in, reserves)
    /\ pc' = "simulated"
    /\ UNCHANGED <<pools, token_in, paths, path, amount_in, reserves>>

NextSim == Simulate

SpecSim == InitSim /\ [][NextSim]_vars

-----------------------------------------------------------------------------
(* Specification of the queries *)

QueryPaths ==
    { ArbPath(n, p1, p2, p3, FALSE, FALSE, FALSE) :
        n \in {2, 3}, p1 \in GenPools, p2 \in GenPools, p3 \in GenPools }

InitQuery ==
    /\ pools = <<>>
    /\ token_in = "A"
    /\ paths = <<>>
    /\ path \in QueryPaths
    /\ amount_in = 0
    /\ reserves = <<>>
    /\ ret = NoRet
    /\ pc = "ready"

HasPool ==
    /\ pc = "ready"
    /\ \E a \in Addrs :
         ret' = [op |-> "has_pool", arg |-> a, val |-> has_pool(path, a)]
    /\ pc' = "queried"
    /\ UNCHANGED <<pools, token_in, paths, path, amount_in, reserves>>

ShouldBlacklist ==
    /\ pc = "ready"
    /\ \E b \in SUBSET Tokens :
         ret' = [op |-> "should_blacklist", arg |-> b,
                 val |-> should_blacklist(path, b)]
    /\ pc' = "queried"
    /\ UNCHANGED <<pools, token_in, paths, path, amount_in, reserves>>

NextQuery == HasPool \/ ShouldBlacklist

SpecQuery == InitQuery /\ [][NextQuery]_vars

-----------------------------------------------------------------------------
(* Properties of the generator *)

\* the token of a pool that is not t
OtherToken(pool, t) == IF pool.token0 = t THEN pool.token1 ELSE pool.token0

\* input and output token of a hop, read from its pool and its flag
HopInput(pool, zero_for_one) ==
    IF zero_for_one THEN pool.token0 ELSE pool.token1

HopOutput(pool, zero_for_one) ==
    IF zero_for_one THEN pool.token1 ELSE pool.token0

PoolSet == { pools[n] : n \in DOMAIN pools }

PathTriples ==
    { << paths[n].pool_1, paths[n].pool_2, paths[n].pool_3 >> :
        n \in DOMAIN paths }

\* the ordered pool triples that form a 3-hop cycle on token_in
CycleTriples ==
    { t \in PoolSet \X PoolSet \X PoolSet :
        LET tokA == OtherToken(t[1], token_in)
            tokB == OtherToken(t[2], tokA)
        IN  /\ can_trade(t[1], token_in)
            /\ can_trade(t[2], tokA)
            /\ can_trade(t[3], tokB)
            /\ OtherToken(t[3], tokB) = token_in
            /\ Cardinality({t[1].address, t[2].address, t[3].address}) = 3 }

\* C1: in every generated path each hop's zero_for_one flag is true iff the
\* hop's pool.token0 is the token supplied into the hop (the base token for
\* hop 1, the previous hop's output token for hops 2 and 3).
C1_FlagIffToken0IsInput ==
    pc = "generated" =>
        \A n \in DOMAIN paths :
            LET q == paths[n]
                in1 == token_in
                in2 == OtherToken(q.pool_1, in1)
                in3 == OtherToken(q.pool_2, in2)
            IN  /\ q.zero_for_one_1 <=> (q.pool_1.token0 = in1)
                /\ q.zero_for_one_2 <=> (q.pool_2.token0 = in2)
                /\ q.zero_for_one_3 <=> (q.pool_3.token0 = in3)

\* C2: the generator returns exactly the ordered pool triples that form a
\* 3-hop cycle on the base token through three pairwise distinct addresses:
\* none is missed and none outside that set is returned.
C2_ExactlyTheCycles ==
    pc = "generated" => PathTriples = CycleTriples

\* C3: every generated path is a closed token cycle when each hop's input
\* and output token are read from its pool and its flag: it starts on the
\* base token, each hop's output is the next hop's input, and the last
\* hop's output is the base token.
C3_ClosedCycle ==
    pc = "generated" =>
        \A n \in DOMAIN paths :
            LET q == paths[n]
            IN  /\ HopInput(q.pool_1, q.zero_for_one_1) = token_in
                /\ HopOutput(q.pool_1, q.zero_for_one_1)
                     = HopInput(q.pool_2, q.zero_for_one_2)
                /\ HopOutput(q.pool_2, q.zero_for_one_2)
                     = HopInput(q.pool_3, q.zero_for_one_3)
                /\ HopOutput(q.pool_3, q.zero_for_one_3) = token_in

\* C5: the three pool addresses of every generated path are pairwise
\* distinct, and a pool list with fewer than three distinct addresses
\* yields no path.
C5_DistinctAddresses ==
    pc = "generated" =>
        /\ \A n \in DOMAIN paths :
              /\ paths[n].pool_1.address # paths[n].pool_2.address
              /\ paths[n].pool_1.address # paths[n].pool_3.address
              /\ paths[n].pool_2.address # paths[n].pool_3.address
        /\ Cardinality({ q.address : q \in PoolSet }) < 3 => paths = <<>>

\* a run that returned a path, from a list in which some pool triple closes
\* a cycle through a repeated address and was skipped
C5_Witness ==
    /\ pc = "generated"
    /\ paths # <<>>
    /\ \E a, b, c \in PoolSet :
          /\ a.address = c.address
          /\ can_trade(a, token_in)
          /\ can_trade(b, OtherToken(a, token_in))
          /\ c.token1 = token_in
          /\ can_trade(c, OtherToken(b, OtherToken(a, token_in)))

-----------------------------------------------------------------------------
(* Properties of the queries *)

\* the pools of the path's nhop hops
HopPools(self) == { HopPool(self, i) : i \in 0..(self.nhop - 1) }

\* C4: should_blacklist is true iff a token0 or token1 of any of the
\* path's nhop hop pools is in the blacklist.
C4_BlacklistAnyHop ==
    (pc = "queried" /\ ret.op = "should_blacklist") =>
        (ret.val <=> \E q \in HopPools(path) :
                        q.token0 \in ret.arg \/ q.token1 \in ret.arg)

\* C10: has_pool(addr) is true iff addr is the pool address of one of the
\* path's nhop hops; a slot beyond nhop takes no part.
C10_HasPoolWithinNhop ==
    (pc = "queried" /\ ret.op = "has_pool") =>
        (ret.val <=> \E q \in HopPools(path) : q.address = ret.arg)

-----------------------------------------------------------------------------
(* Properties of the simulation *)

AllHopsPresent ==
    \A q \in HopPools(path) : q.address \in DOMAIN reserves

\* the input-side reserve of a hop in the snapshot
InputReserve(q, zero_for_one) ==
    IF zero_for_one THEN reserves[q.address].reserve0
    ELSE reserves[q.address].reserve1

OutputReserve(q, zero_for_one) ==
    IF zero_for_one THEN reserves[q.address].reserve1
    ELSE reserves[q.address].reserve0

\* decimals of the token supplied into the first hop
FirstDecimals ==
    IF path.zero_for_one_1 THEN path.pool_1.decimals0
    ELSE path.pool_1.decimals1

UnitFits == PowTen(FirstDecimals) # Overflow

ScaleFits == UnitFits /\ amount_in <= U256_MAX \div PowTen(FirstDecimals)

\* C6: a simulate call ends by returning a present amount or absent; an
\* overflow at any step, the scaling included, is never a panic.
C6_NeverPanics ==
    pc = "simulated" => ret.tag \in {"Some", "None"}

\* C7: simulate returns absent whenever some hop's pool address is not a
\* key of the snapshot, whatever the hop, the amount and the other reserves.
C7_MissingReserveIsAbsent ==
    (pc = "simulated" /\ ~AllHopsPresent) => ret = None

\* C8 as claimed: with every hop's reserves present, simulate of amount 0
\* returns a present 0, for every reserve value.
C8_ZeroInZeroOut ==
    (pc = "simulated" /\ amount_in = 0 /\ AllHopsPresent) => ret = Some(0)

\* the hops of the path, as indices
HopIndices == 0..(path.nhop - 1)

\* every hop's input-side reserve is non-zero and its product with
\* FEE_DENOM fits the U256, and every hop's fee is at most FEE_DENOM
ZeroInputDenominatorsOk ==
    \A i \in HopIndices :
        LET r == InputReserve(HopPool(path, i), HopFlag(path, i))
        IN  /\ r # 0
            /\ r <= U256_MAX \div FEE_DENOM
            /\ HopPool(path, i).fee <= FEE_DENOM

\* C8 (amended): with every hop's reserves present, simulate of amount 0
\* never returns a present non-zero amount; it returns a present 0 exactly
\* when 10^decimals fits the U256 and every hop's input-side reserve is
\* non-zero with reserve_in * FEE_DENOM representable; it returns absent
\* when 10^decimals fits and some hop's denominator is zero or overflows;
\* it panics exactly when 10^decimals overflows.
C8_ZeroInAmended ==
    (pc = "simulated" /\ amount_in = 0 /\ AllHopsPresent) =>
        /\ ret.tag = "Some" => ret.val = 0
        /\ ret = Some(0) <=> (UnitFits /\ ZeroInputDenominatorsOk)
        /\ ret = None <=> (UnitFits /\ ~ZeroInputDenominatorsOk)
        /\ ret = Panic <=> ~UnitFits

\* a 3-hop run of amount 0 over present, non-zero reserves that returned 0
C8_Witness ==
    /\ pc = "simulated"
    /\ amount_in = 0
    /\ path.nhop = 3
    /\ AllHopsPresent
    /\ ret = Some(0)

\* one application of the AMM output function to hop i of the path
HopApply(x, i) ==
    get_amount_out(x,
                   InputReserve(HopPool(path, i), HopFlag(path, i)),
                   OutputReserve(HopPool(path, i), HopFlag(path, i)),
                   HopPool(path, i).fee)

\* the sequential composition over hops 1..nhop, the first input being
\* amount_in * 10^d, each output passed unscaled to the next hop
Composition ==
    LET h1 == HopApply(amount_in * (10 ^ FirstDecimals), 0)
        h2 == IF h1.tag = "Some" THEN HopApply(h1.val, 1) ELSE None
        h3 == IF h2.tag = "Some" THEN HopApply(h2.val, 2) ELSE None
    IN  IF path.nhop = 2 THEN h2 ELSE h3

=============================================================================
